---- MODULE Spec2Model ----
(***************************************************************************)
(* The CRM write path of crm/schema.py over the tables of crm/models.py:   *)
(* CreateCustomer, BulkCreateCustomers, CreateProduct and CreateOrder.     *)
(*                                                                         *)
(* Tables are sequences of rows; a row's primary key is its position (no   *)
(* operation deletes a row).  Text that is inspected character by          *)
(* character (the phone number) is a sequence of one-character strings.    *)
(* An optional input is None (omitted, Python None) or Some(x).            *)
(* Prices and totals are counted in cents (DecimalField, 2 places).        *)
(* An error is the message of the exception raised; where Django would     *)
(* report several field errors at once the first one stands for them.      *)
(* Not modelled: the digit limits of DecimalField, the max_length of name, *)
(* the format check of EmailField (every email drawn is well formed), and  *)
(* the created_at / updated_at columns.                                    *)
(***************************************************************************)
EXTENDS Integers, Sequences, FiniteSets, TLC

VARIABLES
    customers,       \* the Customer table: rows [name, email, phone]
    products,        \* the Product table: rows [name, price, stock]
    orders,          \* the Order table: rows [customer, order_date, total_amount]
    order_products,  \* the Order-Product junction table: pairs <<order id, product id>>
    last,            \* the last completed request and the response it got
    reqs             \* the customer requests in flight (interleaved executions)

vars == <<customers, products, orders, order_products, last, reqs>>

None == <<>>
Some(x) == <<x>>
IsNone(o) == o = <<>>
Val(o) == o[1]

NoError == "ok"

(***************************************************************************)
(* Bounds of the model.                                                    *)
(***************************************************************************)
\* rows of the Product table
MaxProducts == 2
\* rows of the Order table
MaxOrders == 1
\* rows of one bulkCreateCustomers input
MaxBatch == 3
\* longest run of digits of a sampled phone number
MaxDigits == 16
\* rows of one bulkCreateCustomers input of an interleaved request
MaxConcBatch == 2

(***************************************************************************)
(* Customer.phone: phone_regex and max_length.                             *)
(***************************************************************************)
Digits == {"0", "1", "2", "3", "4", "5", "6", "7", "8", "9"}

PhoneMaxLength == 17

AllDigits(s, from, to) == \A i \in from..to : s[i] \in Digits

\* "$" of a Python regex: the end of the text, or just before a final newline
AtDollar(s, i) == i = Len(s) + 1 \/ (i = Len(s) /\ s[i] = "\n")

\* ^\+?1?\d{9,15}$ : p and o are the characters taken by "\+?" and "1?"
InternationalMatch(s) ==
    \E p \in {0, 1}, o \in {0, 1}, n \in 9..15 :
        /\ p + o + n <= Len(s)
        /\ p = 1 => s[1] = "+"
        /\ o = 1 => s[p + 1] = "1"
        /\ AllDigits(s, p + o + 1, p + o + n)
        /\ AtDollar(s, p + o + n + 1)

\* ^\d{3}-\d{3}-\d{4}$
DashedMatch(s) ==
    /\ Len(s) >= 12
    /\ AllDigits(s, 1, 3) /\ s[4] = "-"
    /\ AllDigits(s, 5, 7) /\ s[8] = "-"
    /\ AllDigits(s, 9, 12)
    /\ AtDollar(s, 13)

phone_regex(s) == InternationalMatch(s) \/ DashedMatch(s)

\* the phone field of full_clean: blank=True skips an empty value; then the
\* validators (phone_regex, max_length) run
PhoneError(phone) ==
    IF IsNone(phone) \/ Val(phone) = <<>> THEN NoError
    ELSE IF ~phone_regex(Val(phone)) THEN "Phone number must be in format"
    ELSE IF Len(Val(phone)) > PhoneMaxLength THEN "Ensure this value has at most 17 characters"
    ELSE NoError

(***************************************************************************)
(* The Customer table.                                                     *)
(***************************************************************************)
\* Customer.objects.filter(email=e).exists()
EmailExists(table, e) == \E i \in 1..Len(table) : table[i].email = e

\* Customer(name=..., email=..., phone=input.get('phone'))
NewCustomer(input) == [name |-> input.name, email |-> input.email, phone |-> input.phone]

\* customer.full_clean(): clean_fields, then validate_unique against the table
FullCleanCustomer(c, table) ==
    IF c.name = "" THEN "This field cannot be blank"
    ELSE IF PhoneError(c.phone) # NoError THEN PhoneError(c.phone)
    ELSE IF EmailExists(table, c.email) THEN "Customer with this Email already exists"
    ELSE NoError

\* the INSERT on a table without the unique index
InsertUnchecked(table, c) == [error |-> NoError, table |-> Append(table, c)]

\* customer.save(): the INSERT, under the table's unique index on email
InsertCustomer(table, c) ==
    IF EmailExists(table, c.email)
    THEN [error |-> "UNIQUE constraint failed", table |-> table]
    ELSE [error |-> NoError, table |-> Append(table, c)]

(***************************************************************************)
(* CreateCustomer.mutate and BulkCreateCustomers.mutate, run alone.        *)
(***************************************************************************)
Raise(msg, table) == [ok |-> FALSE, error |-> msg, customer |-> 0, table |-> table]

\* createCustomer validating the fields before looking for the email
CreateCustomerCleanFirst(table, input) ==
    LET c == NewCustomer(input)
        phoneFirst == IF c.name = "" THEN "This field cannot be blank" ELSE PhoneError(c.phone)
    IN  IF phoneFirst # NoError THEN Raise(phoneFirst, table)
        ELSE IF EmailExists(table, input.email) THEN Raise("Email already exists", table)
        ELSE LET r == InsertCustomer(table, c)
             IN  [ok |-> r.error = NoError, error |-> r.error,
                  customer |-> IF r.error = NoError THEN Len(r.table) ELSE 0,
                  table |-> r.table]

\* the response of createCustomer and the Customer table it leaves
CreateCustomerMutate(table, input) ==
    IF EmailExists(table, input.email) THEN Raise("Email already exists", table)
    ELSE LET c == NewCustomer(input)
             e == FullCleanCustomer(c, table)
         IN  IF e # NoError THEN Raise(e, table)
             ELSE LET r == InsertCustomer(table, c)
                  IN  [ok |-> r.error = NoError, error |-> r.error,
                       customer |-> IF r.error = NoError THEN Len(r.table) ELSE 0,
                       table |-> r.table]

\* the row label without the + 1
RowLabelZeroBased(idx) == idx

\* the N of f"Row {idx + 1}: ..." for the index idx of enumerate(input)
RowLabel(idx) == idx + 1

\* a loop body that saves the row without any check, on a table without the
\* unique index
BulkRowUnchecked(table, customer_data) == InsertUnchecked(table, NewCustomer(customer_data))

\* one turn of the loop body on customer_data: the error it records (or
\* NoError) and the table it leaves
BulkRow(table, customer_data) ==
    IF EmailExists(table, customer_data.email)
    THEN [error |-> "Email already exists", table |-> table]
    ELSE LET c == NewCustomer(customer_data)
             e == FullCleanCustomer(c, table)
         IN  IF e # NoError THEN [error |-> e, table |-> table]
             ELSE InsertCustomer(table, c)

\* the customer object appended to customers_created: the saved row with its pk
Created(table) == [id |-> Len(table), row |-> table[Len(table)]]

RECURSIVE BulkLoop(_, _, _, _, _)
\* the for loop from index idx (0-based, as enumerate counts) to the end
BulkLoop(table, input, idx, customers_created, errors) ==
    IF idx >= Len(input)
    THEN [table |-> table, customers |-> customers_created, errors |-> errors]
    ELSE LET r == BulkRow(table, input[idx + 1])
         IN  IF r.error = NoError
             THEN BulkLoop(r.table, input, idx + 1,
                           Append(customers_created, Created(r.table)), errors)
             ELSE BulkLoop(r.table, input, idx + 1, customers_created,
                           Append(errors, [row |-> RowLabel(idx), msg |-> r.error]))

\* the response of bulkCreateCustomers (errors=errors if errors else None)
\* and the Customer table it leaves
BulkCreateCustomersMutate(table, input) ==
    LET r == BulkLoop(table, input, 0, <<>>, <<>>)
    IN  [customers |-> r.customers,
         errors |-> IF r.errors = <<>> THEN None ELSE Some(r.errors),
         table |-> r.table]

(***************************************************************************)
(* CreateProduct.mutate.                                                   *)
(***************************************************************************)
\* input.get('stock', 0), with ProductInput.stock default_value=0
StockOf(input) == IF IsNone(input.stock) THEN 0 ELSE Val(input.stock)

\* product.full_clean(): name may not be blank
FullCleanProduct(p) == IF p.name = "" THEN "This field cannot be blank" ELSE NoError

\* createProduct without the price check
CreateProductNoPriceCheck(table, input) ==
    LET p == [name |-> input.name, price |-> input.price, stock |-> StockOf(input)]
    IN  IF p.stock < 0
        THEN [ok |-> FALSE, error |-> "Stock cannot be negative", product |-> 0, table |-> table]
        ELSE IF FullCleanProduct(p) # NoError
        THEN [ok |-> FALSE, error |-> FullCleanProduct(p), product |-> 0, table |-> table]
        ELSE [ok |-> TRUE, error |-> NoError, product |-> Len(table) + 1,
              table |-> Append(table, p)]

\* the response of createProduct and the Product table it leaves
CreateProductMutate(table, input) ==
    IF input.price <= 0
    THEN [ok |-> FALSE, error |-> "Price must be positive", product |-> 0, table |-> table]
    ELSE LET stock == StockOf(input)
             p == [name |-> input.name, price |-> input.price, stock |-> stock]
         IN  IF stock < 0
             THEN [ok |-> FALSE, error |-> "Stock cannot be negative", product |-> 0,
                   table |-> table]
             ELSE IF FullCleanProduct(p) # NoError
             THEN [ok |-> FALSE, error |-> FullCleanProduct(p), product |-> 0, table |-> table]
             ELSE [ok |-> TRUE, error |-> NoError, product |-> Len(table) + 1,
                   table |-> Append(table, p)]

(***************************************************************************)
(* CreateOrder.mutate and Order.calculate_total.                           *)
(***************************************************************************)
\* Model.objects.get(pk=id) finds a row
Resolves(table, id) == id \in 1..Len(table)

\* the checks before anything is written: the ValidationError raised, or NoError
ValidateOrder(customerTable, productTable, input) ==
    IF ~Resolves(customerTable, input.customer_id) THEN "Customer does not exist"
    ELSE IF input.product_ids = <<>> THEN "At least one product must be selected"
    ELSE IF \E i \in 1..Len(input.product_ids) : ~Resolves(productTable, input.product_ids[i])
    THEN "Product does not exist"
    ELSE NoError

\* order.products.all(): the products the junction table gives the order
ProductsOf(junction, order) == {pair[2] : pair \in {q \in junction : q[1] = order}}

RECURSIVE SumPrices(_, _)
\* sum(product.price for product in ...)
SumPrices(productTable, ids) ==
    IF ids = {} THEN 0
    ELSE LET p == CHOOSE x \in ids : TRUE
         IN  productTable[p].price + SumPrices(productTable, ids \ {p})

\* order.products.set(products): the order's rows of the junction table become
\* one row per distinct product
ProductsSet(junction, order, objs) ==
    {q \in junction : q[1] # order} \cup {<<order, objs[i]>> : i \in 1..Len(objs)}

\* calculate_total never called: total_amount keeps its default
CalculateTotalSkipped(db, productTable, order) == db

\* Order.calculate_total: total_amount := the sum over products.all(), then save()
calculate_total(db, productTable, order) ==
    [db EXCEPT !.orders[order].total_amount =
                   SumPrices(productTable, ProductsOf(db.order_products, order))]

\* Order(customer=..., order_date=input.get('order_date')); order.save():
\* order_date is NOT NULL, and an omitted input arrives as None
OrderSave(db, input) ==
    IF IsNone(input.order_date)
    THEN [error |-> "NOT NULL constraint failed", db |-> db]
    ELSE [error |-> NoError,
          db |-> [db EXCEPT !.orders = Append(@, [customer |-> input.customer_id,
                                                   order_date |-> Val(input.order_date),
                                                   total_amount |-> 0])]]

RECURSIVE SumPerOccurrence(_, _)
\* the prices summed over the input list, a repeated id counted each time
SumPerOccurrence(productTable, ids) ==
    IF ids = <<>> THEN 0
    ELSE productTable[Head(ids)].price + SumPerOccurrence(productTable, Tail(ids))

\* the writes of mutate, with total_amount summed over the input list
\* instead of over products.all()
OrderWritesPerOccurrence(db, productTable, input, fault) ==
    IF fault = "save" THEN [error |-> "storage fault", db |-> db]
    ELSE LET saved == OrderSave(db, input)
             order == Len(saved.db.orders)
             attached == [saved.db EXCEPT !.order_products =
                              ProductsSet(@, order, input.product_ids)]
         IN  IF saved.error # NoError THEN saved
             ELSE IF fault = "set" THEN [error |-> "storage fault", db |-> saved.db]
             ELSE IF fault = "total" THEN [error |-> "storage fault", db |-> attached]
             ELSE [error |-> NoError,
                   db |-> [attached EXCEPT !.orders[order].total_amount =
                               SumPerOccurrence(productTable, input.product_ids)]]

\* the writes of mutate, in order; fault names the write a storage fault
\* interrupts ("none": no fault).  Gives the error raised and the tables as
\* the writes done so far left them.
OrderWrites(db, productTable, input, fault) ==
    IF fault = "save" THEN [error |-> "storage fault", db |-> db]
    ELSE LET saved == OrderSave(db, input)
             order == Len(saved.db.orders)
             attached == [saved.db EXCEPT !.order_products =
                              ProductsSet(@, order, input.product_ids)]
         IN  IF saved.error # NoError THEN saved
             ELSE IF fault = "set" THEN [error |-> "storage fault", db |-> saved.db]
             ELSE IF fault = "total" THEN [error |-> "storage fault", db |-> attached]
             ELSE [error |-> NoError, db |-> calculate_total(attached, productTable, order)]

\* mutate without the transaction: the writes done before an exception stay
AtomicNoRollback(before, r) == r

\* @transaction.atomic: an exception leaving mutate rolls its writes back
Atomic(before, r) == IF r.error # NoError THEN [r EXCEPT !.db = before] ELSE r

\* the response of createOrder and the Order and junction tables it leaves
CreateOrderMutate(customerTable, productTable, db, input, fault) ==
    LET invalid == ValidateOrder(customerTable, productTable, input)
        r == Atomic(db, IF invalid # NoError THEN [error |-> invalid, db |-> db]
                        ELSE OrderWrites(db, productTable, input, fault))
    IN  [ok |-> r.error = NoError, error |-> r.error,
         order |-> IF r.error = NoError THEN Len(r.db.orders) ELSE 0,
         db |-> r.db]

(***************************************************************************)
(* The inputs the requests are drawn from.                                 *)
(***************************************************************************)
Rep(c, n) == [i \in 1..n |-> c]

SeqsUpTo(S, n) == UNION {[1..k -> S] : k \in 0..n}

Names == {"Ann", ""}
Emails == {"a@x.io", "b@x.io"}

DashedPhone == <<"5", "5", "5", "-", "5", "5", "5", "-", "5", "5", "5", "5">>
BadPhone == <<"5", "5", "5">>

\* customers as a mixed workload creates them
PlainCustomers == [name : {"Ann"}, email : {"a@x.io"}, phone : {None}]
\* customers with every kind of name and phone
AnyCustomers == [name : Names, email : Emails, phone : {None, Some(DashedPhone), Some(BadPhone)}]
\* rows of a bulk input: valid, or with a malformed phone
BatchRows ==
    [name : {"Ann"}, email : Emails, phone : {None}]
        \cup [name : {"Ann"}, email : {"b@x.io"}, phone : {Some(BadPhone)}]

\* phone texts around the two formats: a prefix, a run of digits, a suffix
DigitRunPhones ==
    {pre \o Rep("5", n) \o suf :
        pre \in {<<>>, <<"+">>, <<"1">>, <<"+", "1">>, <<"+", "+">>, <<"x">>},
        n \in 0..MaxDigits,
        suf \in {<<>>, <<"\n">>, <<"x">>}}
DashedPhones ==
    {DashedPhone, DashedPhone \o <<"\n">>, DashedPhone \o <<"5">>, <<"+">> \o DashedPhone,
     SubSeq(DashedPhone, 1, 11), SubSeq(DashedPhone, 1, 3) \o SubSeq(DashedPhone, 5, 12),
     Rep("5", 3) \o <<"-">> \o Rep("5", 4) \o <<"-">> \o Rep("5", 3)}
PhoneCustomers ==
    [name : {"Ann"}, email : {"a@x.io"},
     phone : {None} \cup {Some(t) : t \in DigitRunPhones \cup DashedPhones}]

\* products: a price that is not positive; a cheap product, stock omitted; a
\* dear one, stock supplied; each also with a negative stock or a blank name
ProductInputs ==
    [name : {"pen"}, price : {-5, 0}, stock : {None, Some(-1), Some(1)}]
        \cup [name : {"pen", ""}, price : {1}, stock : {None, Some(-1)}]
        \cup [name : {"pen", ""}, price : {2}, stock : {Some(1), Some(-1)}]

Dates == {1, 2}
Faults == {"none", "save", "set", "total"}
OrderInputs ==
    [customer_id : {1, 2},
     product_ids : SeqsUpTo({1, 2}, 2),
     order_date : {None} \cup {Some(d) : d \in Dates}]

(***************************************************************************)
(* The requests, each run alone from start to end.  (r is bound through a  *)
(* one-element set so that the response is computed once per step.)        *)
(***************************************************************************)
CreateCustomer(input) ==
    \E r \in {CreateCustomerMutate(customers, input)} :
        /\ customers' = r.table
        /\ last' = [op |-> "createCustomer", input |-> input,
                    resp |-> [ok |-> r.ok, error |-> r.error, customer |-> r.customer]]
        /\ UNCHANGED <<products, orders, order_products, reqs>>

BulkCreateCustomers(input) ==
    \E r \in {BulkCreateCustomersMutate(customers, input)} :
        /\ customers' = r.table
        /\ last' = [op |-> "bulkCreateCustomers", input |-> input,
                    resp |-> [customers |-> r.customers, errors |-> r.errors]]
        /\ UNCHANGED <<products, orders, order_products, reqs>>

CreateProduct(input) ==
    \E r \in {CreateProductMutate(products, input)} :
        /\ Len(r.table) <= MaxProducts
        /\ products' = r.table
        /\ last' = [op |-> "createProduct", input |-> input,
                    resp |-> [ok |-> r.ok, error |-> r.error, product |-> r.product]]
        /\ UNCHANGED <<customers, orders, order_products, reqs>>

CreateOrder(input, fault) ==
    \E r \in {CreateOrderMutate(customers, products,
                               [orders |-> orders, order_products |-> order_products],
                               input, fault)} :
        /\ Len(r.db.orders) <= MaxOrders
        /\ orders' = r.db.orders
        /\ order_products' = r.db.order_products
        /\ last' = [op |-> "createOrder", input |-> input,
                    fault |-> IF r.error = "storage fault" THEN fault ELSE "none",
                    resp |-> [ok |-> r.ok, error |-> r.error, order |-> r.order]]
        /\ UNCHANGED <<customers, products, reqs>>

Slots == {1, 2}

Idle == [pc |-> "idle"]

Init ==
    /\ customers = <<>>
    /\ products = <<>>
    /\ orders = <<>>
    /\ order_products = {}
    /\ last = [op |-> "none"]
    /\ reqs = [r \in Slots |-> Idle]

\* every request kind, one at a time
Next ==
    \/ \E input \in PlainCustomers : CreateCustomer(input)
    \/ \E input \in SeqsUpTo(PlainCustomers, MaxBatch) : BulkCreateCustomers(input)
    \/ \E input \in ProductInputs : CreateProduct(input)
    \/ \E input \in OrderInputs, fault \in Faults : CreateOrder(input, fault)

Spec == Init /\ [][Next]_vars

\* the customer requests alone, over every kind of customer input
NextCustomers ==
    \/ \E input \in AnyCustomers : CreateCustomer(input)
    \/ \E input \in SeqsUpTo(BatchRows, MaxBatch) : BulkCreateCustomers(input)

SpecCustomers == Init /\ [][NextCustomers]_vars

\* createCustomer over the sampled phone texts, on the empty table
NextPhone == customers = <<>> /\ \E input \in PhoneCustomers : CreateCustomer(input)

SpecPhone == Init /\ [][NextPhone]_vars

(***************************************************************************)
(* Customer requests interleaved: each query and each INSERT of a request  *)
(* is one step, and the steps of two requests may alternate.  A slot runs  *)
(* one request: createCustomer ("single", a one-row input) or              *)
(* bulkCreateCustomers ("bulk").  raced is history: the rows (by index)    *)
(* whose existence check passed while the other request had passed it for  *)
(* the same email and not yet inserted.                                    *)
(***************************************************************************)
ConcRows == BatchRows

Other(r) == CHOOSE o \in Slots : o # r

\* the row a request is working on
Row(req) == req.input[req.idx + 1]

\* between a passed existence check and the INSERT
InFlight(req) == req.pc \in {"clean", "save"}

\* the loop goes on to the next row, or the request returns
NextRow(req) ==
    [req EXCEPT !.idx = @ + 1,
                !.pc = IF req.idx + 1 >= Len(req.input) THEN "done" ELSE "check"]

\* a bulk loop that catches ValidationError only: a database error ends the request
BulkAbortOnException(req, msg) ==
    IF msg = "UNIQUE constraint failed"
    THEN [req EXCEPT !.pc = "done", !.error = msg]
    ELSE NextRow([req EXCEPT !.errors = Append(@, [row |-> RowLabel(req.idx), msg |-> msg])])

\* except ValidationError / except Exception of the bulk loop: the row's
\* error is recorded and the loop goes on
BulkExcept(req, msg) ==
    NextRow([req EXCEPT !.errors = Append(@, [row |-> RowLabel(req.idx), msg |-> msg])])

\* an exception raised while working on a row
Raised(req, msg) ==
    IF req.kind = "single" THEN [req EXCEPT !.pc = "done", !.error = msg]
    ELSE BulkExcept(req, msg)

\* the row was saved as the last row of table
Saved(req, table) ==
    IF req.kind = "single" THEN [req EXCEPT !.pc = "done", !.customers = <<Created(table)>>]
    ELSE NextRow([req EXCEPT !.customers = Append(@, Created(table))])

Start(r, kind, input) ==
    /\ reqs[r].pc = "idle"
    /\ reqs' = [reqs EXCEPT ![r] =
                   [pc |-> IF input = <<>> THEN "done" ELSE "check", kind |-> kind,
                    input |-> input, idx |-> 0, customers |-> <<>>, errors |-> <<>>,
                    error |-> NoError, raced |-> {}]]
    /\ UNCHANGED <<customers, products, orders, order_products, last>>

\* Customer.objects.filter(email=...).exists()
Check(r) ==
    LET req == reqs[r]
        o == Other(r)
        race == InFlight(reqs[o]) /\ Row(reqs[o]).email = Row(req).email
    IN  /\ req.pc = "check"
        /\ reqs' = IF EmailExists(customers, Row(req).email)
                   THEN [reqs EXCEPT ![r] = Raised(req, "Email already exists")]
                   ELSE IF race
                   THEN [reqs EXCEPT ![r] = [req EXCEPT !.pc = "clean",
                                                        !.raced = @ \cup {req.idx}],
                                     ![o] = [reqs[o] EXCEPT !.raced = @ \cup {reqs[o].idx}]]
                   ELSE [reqs EXCEPT ![r] = [req EXCEPT !.pc = "clean"]]
        /\ UNCHANGED <<customers, products, orders, order_products, last>>

\* customer.full_clean()
Clean(r) ==
    LET req == reqs[r]
        e == FullCleanCustomer(NewCustomer(Row(req)), customers)
    IN  /\ req.pc = "clean"
        /\ reqs' = [reqs EXCEPT ![r] = IF e # NoError THEN Raised(req, e)
                                       ELSE [req EXCEPT !.pc = "save"]]
        /\ UNCHANGED <<customers, products, orders, order_products, last>>

\* customer.save()
Save(r) ==
    LET req == reqs[r]
        ins == InsertCustomer(customers, NewCustomer(Row(req)))
    IN  /\ req.pc = "save"
        /\ customers' = ins.table
        /\ reqs' = [reqs EXCEPT ![r] = IF ins.error # NoError THEN Raised(req, ins.error)
                                       ELSE Saved(req, ins.table)]
        /\ UNCHANGED <<products, orders, order_products, last>>

NextConc ==
    \/ \E r \in Slots, row \in ConcRows : Start(r, "single", <<row>>)
    \/ \E r \in Slots, input \in SeqsUpTo(ConcRows, MaxConcBatch) : Start(r, "bulk", input)
    \/ \E r \in Slots : Check(r)
    \/ \E r \in Slots : Clean(r)
    \/ \E r \in Slots : Save(r)

SpecConc == Init /\ [][NextConc]_vars

(***************************************************************************)
(* Properties of createOrder and createProduct (under Spec).               *)
(***************************************************************************)
\* C1: a createOrder that fails (customer or product not found, no products,
\* NULL order_date, or a storage fault at the save, the attach or the total)
\* leaves the Order table and the Order-Product table exactly as they were.
C1_FailedOrderWritesNothing ==
    [][(last'.op = "createOrder" /\ ~last'.resp.ok)
          => (orders' = orders /\ order_products' = order_products)]_vars

\* a storage fault struck the last write of a createOrder (the total), after
\* the order row and its product rows had been written
C1_Witness ==
    /\ last.op = "createOrder"
    /\ last.fault = "total"
    /\ ~last.resp.ok

\* C2: every Order row has at least one product row and its total_amount is
\* the sum of the prices of exactly those products; a successful createOrder
\* with two distinct product ids P1, P2 gives the order the products {P1, P2}
\* and the total P1.price + P2.price.
C2_OrderTotalsMatchProducts ==
    /\ \A o \in 1..Len(orders) :
          /\ ProductsOf(order_products, o) # {}
          /\ ProductsOf(order_products, o) \subseteq 1..Len(products)
          /\ orders[o].total_amount = SumPrices(products, ProductsOf(order_products, o))
    /\ \A pair \in order_products : pair[1] \in 1..Len(orders)
    /\ (/\ last.op = "createOrder"
        /\ last.resp.ok
        /\ Len(last.input.product_ids) = 2
        /\ last.input.product_ids[1] # last.input.product_ids[2])
          => LET P1 == last.input.product_ids[1]
                 P2 == last.input.product_ids[2]
                 o == last.resp.order
             IN  /\ ProductsOf(order_products, o) = {P1, P2}
                 /\ orders[o].total_amount = products[P1].price + products[P2].price
                 /\ orders[o].customer = last.input.customer_id

\* an order of two products with different prices was created
C2_Witness ==
    /\ last.op = "createOrder"
    /\ last.resp.ok
    /\ last.input.product_ids = <<1, 2>>
    /\ products[1].price # products[2].price
    /\ orders[last.resp.order].total_amount = 3

\* C3: createOrder with a customer_id that resolves, a non-empty list of
\* product_ids that all resolve and no storage fault succeeds whether
\* order_date is supplied or omitted; omitted, the order carries the time of
\* its execution, supplied, the supplied value.
C3_OmittedDateDefaultsToNow ==
    (/\ last.op = "createOrder"
     /\ last.fault = "none"
     /\ ValidateOrder(customers, products, last.input) = NoError)
       => /\ last.resp.ok
          /\ orders[last.resp.order].order_date \in Nat
          /\ ~IsNone(last.input.order_date)
                => orders[last.resp.order].order_date = Val(last.input.order_date)

\* a createOrder with order_date supplied succeeded and carries it
C3_Witness ==
    /\ last.op = "createOrder"
    /\ last.resp.ok
    /\ last.input.order_date = Some(1)
    /\ orders[last.resp.order].order_date = 1

\* C8: every Product row has price > 0 and stock >= 0; createProduct with
\* price <= 0 or stock < 0 fails with its validation message and adds no row;
\* with a non-blank name, price > 0 and stock omitted it adds a row with
\* stock 0; and no step changes or removes an existing Product row.
C8_ProductsPositive ==
    /\ [](/\ \A i \in 1..Len(products) : products[i].price > 0 /\ products[i].stock >= 0
          /\ last.op = "createProduct" =>
                /\ last.input.price <= 0 =>
                      /\ ~last.resp.ok
                      /\ last.resp.error = "Price must be positive"
                /\ (~IsNone(last.input.stock) /\ Val(last.input.stock) < 0) =>
                      /\ ~last.resp.ok
                      /\ last.resp.error \in {"Price must be positive",
                                              "Stock cannot be negative"}
                /\ (last.input.price > 0 /\ IsNone(last.input.stock)
                        /\ last.input.name # "") =>
                      /\ last.resp.ok
                      /\ last.resp.product = Len(products)
                      /\ products[last.resp.product] =
                            [name |-> last.input.name, price |-> last.input.price,
                             stock |-> 0])
    /\ [][/\ Len(products') >= Len(products)
          /\ \A i \in 1..Len(products) : products'[i] = products[i]
          /\ (last'.op = "createProduct" /\ ~last'.resp.ok) => products' = products]_vars

\* an order was created over a product that was created with stock omitted
\* and one created with stock 1
C8_Witness ==
    /\ Len(orders) = 1
    /\ Len(products) = 2
    /\ products[1].stock = 0
    /\ products[2].stock = 1
    /\ ProductsOf(order_products, 1) = {1, 2}

(***************************************************************************)
(* Properties of createCustomer and bulkCreateCustomers run alone (under   *)
(* SpecCustomers).                                                         *)
(***************************************************************************)
\* C5: createCustomer with an email some Customer row already has fails with
\* the duplicate-email error and leaves the Customer table unchanged,
\* whatever the name and the phone are.  (The table being unchanged, the same
\* call repeated meets the same state and fails the same way.)
C5_DuplicateEmailRejected ==
    [][(last'.op = "createCustomer" /\ EmailExists(customers, last'.input.email))
          => /\ ~last'.resp.ok
             /\ last'.resp.error = "Email already exists"
             /\ last'.resp.customer = 0
             /\ customers' = customers]_vars

\* a createCustomer reusing a stored email, with a blank name and a
\* malformed phone, was refused as a duplicate
C5_Witness ==
    /\ last.op = "createCustomer"
    /\ last.input.name = ""
    /\ last.input.phone = Some(BadPhone)
    /\ last.resp.error = "Email already exists"
    /\ EmailExists(customers, last.input.email)

\* the list of the errors of a bulk response (None when there is none)
ErrorList(resp) == IF IsNone(resp.errors) THEN <<>> ELSE Val(resp.errors)

\* row i of a bulk input passes the field validation
RowValid(input, i) == input[i].name # "" /\ PhoneError(input[i].phone) = NoError

\* row i of a bulk input is to be persisted: it is valid, its email is not
\* in the table the request found (pre), and no valid earlier row has it
RowWins(pre, input, i) ==
    /\ RowValid(input, i)
    /\ ~EmailExists(pre, input[i].email)
    /\ ~\E j \in 1..(i - 1) : RowValid(input, j) /\ input[j].email = input[i].email

\* C6: a bulkCreateCustomers response accounts for every row once: customers
\* lists exactly the rows that were persisted (the rows appended to the
\* table), in input order, errors holds one "Row N" entry for each other row,
\* N its 1-based position, in input order; rows after a failed row are still
\* processed.
C6_BulkPartialSuccess ==
    [][last'.op = "bulkCreateCustomers" =>
          LET input == last'.input
              idxs == [i \in 1..Len(input) |-> i]
              Wins(i) == RowWins(customers, input, i)
              Loses(i) == ~RowWins(customers, input, i)
              won == SelectSeq(idxs, Wins)
              lost == SelectSeq(idxs, Loses)
              created == last'.resp.customers
              errs == ErrorList(last'.resp)
          IN  /\ Len(created) = Len(won)
              /\ \A k \in 1..Len(won) :
                    /\ created[k].row = NewCustomer(input[won[k]])
                    /\ created[k].id = Len(customers) + k
              /\ Len(errs) = Len(lost)
              /\ \A k \in 1..Len(lost) : errs[k].row = lost[k]
              /\ customers' = customers \o [k \in 1..Len(created) |-> created[k].row]]_vars

\* the batch [valid, the same email again, valid] gave two customers
\* (rows 1 and 3) and the one error "Row 2"
C6_Witness ==
    /\ last.op = "bulkCreateCustomers"
    /\ Len(last.input) = 3
    /\ last.input[2].email = last.input[1].email
    /\ Len(last.resp.customers) = 2
    /\ last.resp.customers[1].row = NewCustomer(last.input[1])
    /\ last.resp.customers[2].row = NewCustomer(last.input[3])
    /\ Len(ErrorList(last.resp)) = 1
    /\ ErrorList(last.resp)[1] = [row |-> 2, msg |-> "Email already exists"]
    /\ customers = <<NewCustomer(last.input[1]), NewCustomer(last.input[3])>>

\* C9: in one batch, when rows i < j carry the same email, the table the
\* request found has no row with it, both rows are otherwise valid and i is
\* the first row with that email, then row i is persisted and returned in
\* customers, row j is not persisted and is reported as the error "Row j".
C9_BatchInternalDuplicates ==
    [][last'.op = "bulkCreateCustomers" =>
          LET input == last'.input
              created == last'.resp.customers
              errs == ErrorList(last'.resp)
          IN  \A i, j \in 1..Len(input) :
                 (/\ i < j
                  /\ input[i].email = input[j].email
                  /\ ~EmailExists(customers, input[i].email)
                  /\ RowValid(input, i) /\ RowValid(input, j)
                  /\ \A k \in 1..(i - 1) : input[k].email # input[i].email)
                    => /\ \E k \in 1..Len(created) :
                             /\ created[k].row = NewCustomer(input[i])
                             /\ created[k].id \in (Len(customers) + 1)..Len(customers')
                             /\ customers'[created[k].id] = created[k].row
                       /\ Cardinality({k \in 1..Len(customers') :
                                          customers'[k].email = input[i].email}) = 1
                       /\ Cardinality({k \in 1..Len(created) :
                                          created[k].row.email = input[i].email}) = 1
                       /\ \E k \in 1..Len(errs) : errs[k].row = j
                       /\ ~\E k \in 1..Len(errs) : errs[k].row = i]_vars

\* a batch of two valid rows with one new email: the first row was created,
\* the second reported as "Row 2"
C9_Witness ==
    /\ last.op = "bulkCreateCustomers"
    /\ Len(last.input) = 2
    /\ last.input[1] = last.input[2]
    /\ Len(customers) = 1
    /\ Len(last.resp.customers) = 1
    /\ last.resp.customers[1].id = 1
    /\ ErrorList(last.resp) = <<[row |-> 2, msg |-> "Email already exists"]>>

(***************************************************************************)
(* The phone formats (under SpecPhone).                                    *)
(***************************************************************************)
\* the two formats as documented: '+' and 9 to 15 digits, or NNN-NNN-NNNN
DocumentedPhoneFormat(s) ==
    \/ /\ Len(s) \in 10..16
       /\ s[1] = "+"
       /\ AllDigits(s, 2, Len(s))
    \/ /\ Len(s) = 12
       /\ AllDigits(s, 1, 3) /\ s[4] = "-"
       /\ AllDigits(s, 5, 7) /\ s[8] = "-"
       /\ AllDigits(s, 9, 12)

\* C7: createCustomer (new email, valid name) with a non-empty phone text
\* succeeds exactly when the text is '+' followed by 9 to 15 digits or has
\* the form NNN-NNN-NNNN, and otherwise fails and creates no row.
C7_PhoneTwoFormatsExactly ==
    (last.op = "createCustomer" /\ ~IsNone(last.input.phone)
        /\ Val(last.input.phone) # <<>>)
       => /\ last.resp.ok <=> DocumentedPhoneFormat(Val(last.input.phone))
          /\ ~last.resp.ok => customers = <<>>

\* a phone in the documented international format was accepted
C7_Witness ==
    /\ last.op = "createCustomer"
    /\ last.resp.ok
    /\ last.input.phone = Some(<<"+">> \o Rep("5", 9))

(***************************************************************************)
(* Properties of interleaved customer requests (under SpecConc).           *)
(***************************************************************************)
\* C4: whatever the interleaving of the checks and inserts of concurrent
\* createCustomer and bulkCreateCustomers requests, no two Customer rows
\* have the same email.
C4_EmailUnique ==
    \A i, j \in 1..Len(customers) : customers[i].email = customers[j].email => i = j

\* two requests passed the existence check for one email, and the INSERT of
\* the second was refused by the unique index
C4_Witness ==
    \E r \in Slots :
        /\ reqs[r].pc = "done"
        /\ reqs[r].kind = "single"
        /\ reqs[r].raced # {}
        /\ reqs[r].error = "UNIQUE constraint failed"
        /\ EmailExists(customers, reqs[r].input[1].email)

\* the customers a finished or running request created with email e
CreatedWith(req, e) == {k \in 1..Len(req.customers) : req.customers[k].row.email = e}

\* C10: two bulkCreateCustomers requests that both passed the existence
\* check for the same new email (on valid rows) before either inserted it:
\* once both are done, exactly one of them created that customer and the
\* table holds it once; the other has a "Row N" error for its row, has not
\* aborted, has accounted for every row of its input, and every email of its
\* valid rows is in the table.
C10_BulkRaceLoserContinues ==
    \A r \in Slots :
        LET w == reqs[r]
            l == reqs[Other(r)]
        IN  (/\ w.pc = "done" /\ l.pc = "done"
             /\ w.kind = "bulk" /\ l.kind = "bulk")
              => \A i \in l.raced :
                    LET e == l.input[i + 1].email
                    IN  RowValid(l.input, i + 1) =>
                           /\ Cardinality(CreatedWith(w, e)) + Cardinality(CreatedWith(l, e)) = 1
                           /\ Cardinality({k \in 1..Len(customers) :
                                              customers[k].email = e}) = 1
                           /\ CreatedWith(l, e) = {} =>
                                 /\ \E k \in 1..Len(l.errors) : l.errors[k].row = i + 1
                                 /\ l.error = NoError
                                 /\ Len(l.customers) + Len(l.errors) = Len(l.input)
                                 /\ \A k \in 1..Len(l.input) :
                                       RowValid(l.input, k) =>
                                          EmailExists(customers, l.input[k].email)
                                 /\ \A k \in 1..Len(l.customers) :
                                       customers[l.customers[k].id] = l.customers[k].row

\* a bulk request lost the race for the email of its first row at the
\* INSERT, reported "Row 1", and then created the customer of its second row
C10_Witness ==
    \E r \in Slots :
        /\ reqs[r].pc = "done" /\ reqs[Other(r)].pc = "done"
        /\ reqs[r].kind = "bulk" /\ reqs[Other(r)].kind = "bulk"
        /\ 0 \in reqs[r].raced
        /\ reqs[r].errors = <<[row |-> 1, msg |-> "UNIQUE constraint failed"]>>
        /\ Len(reqs[r].customers) = 1
        /\ reqs[r].customers[1].row.email = reqs[r].input[2].email
        /\ Len(customers) = 2

(***************************************************************************)
(* C11: repeated ids in product_ids are collapsed.  For an existing        *)
(* customer and a non-empty list of resolvable product ids in which some   *)
(* id is repeated, createOrder leaves the Order and junction tables, and   *)
(* answers, exactly as createOrder with the repeats removed would have     *)
(* from the same state; and when it succeeds the new order is linked to    *)
(* each distinct product once and total_amount counts each distinct        *)
(* product's price once.                                                   *)
(***************************************************************************)
RECURSIVE Distinct(_)
\* the list without its repeats, first occurrences kept in order
Distinct(ids) ==
    IF ids = <<>> THEN <<>>
    ELSE LET front == Distinct(SubSeq(ids, 1, Len(ids) - 1))
             id == ids[Len(ids)]
         IN  IF \E i \in 1..Len(front) : front[i] = id THEN front
             ELSE Append(front, id)

IdsOf(ids) == {ids[i] : i \in 1..Len(ids)}

C11_RepeatedIdsCollapsed ==
    [][(/\ last'.op = "createOrder"
        /\ ValidateOrder(customers, products, last'.input) = NoError
        /\ Distinct(last'.input.product_ids) # last'.input.product_ids)
       => LET input == last'.input
              removed == [input EXCEPT !.product_ids = Distinct(@)]
              r == CreateOrderMutate(customers, products,
                                     [orders |-> orders, order_products |-> order_products],
                                     removed, last'.fault)
          IN  /\ orders' = r.db.orders
              /\ order_products' = r.db.order_products
              /\ last'.resp.ok = r.ok
              /\ last'.resp.error = r.error
              /\ last'.resp.order = r.order
              /\ last'.resp.ok =>
                     LET o == last'.resp.order
                     IN  /\ ProductsOf(order_products', o) = IdsOf(input.product_ids)
                         /\ Cardinality({q \in order_products' : q[1] = o})
                                = Cardinality(IdsOf(input.product_ids))
                         /\ orders'[o].total_amount
                                = SumPrices(products, IdsOf(input.product_ids))
    ]_vars

\* createOrder with product_ids [1, 1] succeeded: the order is linked to
\* product 1 once and its total is that product's price, counted once
C11_Witness ==
    /\ last.op = "createOrder"
    /\ last.resp.ok
    /\ last.input.product_ids = <<1, 1>>
    /\ Len(products) >= 1
    /\ products[1].price > 0
    /\ {q \in order_products : q[1] = last.resp.order} = {<<last.resp.order, 1>>}
    /\ orders[last.resp.order].total_amount = products[1].price

====
